---- MODULE Spec2Model ----
(***************************************************************************)
(* k-edit-distance (src/src/lib.rs): character-level Levenshtein distance  *)
(* and the Korean syllable-wise, consonant-normalised distance score.      *)
(*                                                                         *)
(* A &str is modelled as its UTF-8 byte sequence; a char is its Unicode    *)
(* scalar value; a Vec is a sequence.  An f32 quotient of two small        *)
(* integers is modelled by the reduced fraction <<num, den>> (distinct     *)
(* fractions with denominators this small round to distinct f32 values,    *)
(* and rounding is monotone, so equality and order are preserved).         *)
(***************************************************************************)
EXTENDS Integers, Sequences, FiniteSets, TLC

VARIABLES s, t, pc, dist, edit_distance, max, n

vars == <<s, t, pc, dist, edit_distance, max, n>>

(***************************************************************************)
(* Bounds of the explored inputs.                                          *)
(***************************************************************************)
MaxLen == 2
LevMaxLen == 3

(***************************************************************************)
(* Small helpers.                                                          *)
(***************************************************************************)
Min(a, b) == IF a <= b THEN a ELSE b

Max(a, b) == IF a >= b THEN a ELSE b

Abs(a) == IF a >= 0 THEN a ELSE -a

RECURSIVE Gcd(_, _)
Gcd(a, b) == IF b = 0 THEN a ELSE Gcd(b, a % b)

(***************************************************************************)
(* UTF-8: str <-> chars (Rust's str::chars and the string literals).       *)
(***************************************************************************)
encode_utf8(c) ==
    IF c < 128 THEN <<c>>
    ELSE IF c < 2048 THEN <<192 + (c \div 64), 128 + (c % 64)>>
    ELSE IF c < 65536
         THEN <<224 + (c \div 4096), 128 + ((c \div 64) % 64), 128 + (c % 64)>>
    ELSE <<240 + (c \div 262144), 128 + ((c \div 4096) % 64),
           128 + ((c \div 64) % 64), 128 + (c % 64)>>

RECURSIVE Str(_)
Str(cs) == IF cs = <<>> THEN <<>> ELSE encode_utf8(Head(cs)) \o Str(Tail(cs))

utf8_char_width(b) ==
    IF b < 128 THEN 1 ELSE IF b < 224 THEN 2 ELSE IF b < 240 THEN 3 ELSE 4

decode_utf8(bs) ==
    IF Len(bs) = 1 THEN bs[1]
    ELSE IF Len(bs) = 2 THEN (bs[1] - 192) * 64 + (bs[2] - 128)
    ELSE IF Len(bs) = 3
         THEN (bs[1] - 224) * 4096 + (bs[2] - 128) * 64 + (bs[3] - 128)
    ELSE (bs[1] - 240) * 262144 + (bs[2] - 128) * 4096
         + (bs[3] - 128) * 64 + (bs[4] - 128)

RECURSIVE chars(_)
chars(str) ==
    IF str = <<>> THEN <<>>
    ELSE LET w == utf8_char_width(str[1])
         IN  <<decode_utf8(SubSeq(str, 1, w))>> \o chars(SubSeq(str, w + 1, Len(str)))

(***************************************************************************)
(* Unicode data used by the two library calls: Hangul syllable arithmetic  *)
(* (canonical decomposition) and the grapheme-cluster break properties of  *)
(* the code points the inputs are built from.                              *)
(***************************************************************************)
SBase == 44032
LBase == 4352
VBase == 4449
TBase == 4519
VCount == 21
TCount == 28
SCount == 11172

IsHangulSyllable(c) == c >= SBase /\ c < SBase + SCount

LIndex(c) == (c - SBase) \div (VCount * TCount)

VIndex(c) == ((c - SBase) % (VCount * TCount)) \div TCount

TIndex(c) == (c - SBase) % TCount

nfd_undecomposed(c) == <<c>>

\* char::nfd(): canonical decomposition of one char.  Hangul syllables
\* decompose arithmetically into conjoining jamo; every other code point the
\* inputs use (ASCII, U+0301, compatibility jamo) has no decomposition.
nfd(c) ==
    IF IsHangulSyllable(c)
    THEN IF TIndex(c) = 0
         THEN <<LBase + LIndex(c), VBase + VIndex(c)>>
         ELSE <<LBase + LIndex(c), VBase + VIndex(c), TBase + TIndex(c)>>
    ELSE <<c>>

\* Grapheme_Cluster_Break property.
GraphemeCat(c) ==
    IF IsHangulSyllable(c) THEN (IF TIndex(c) = 0 THEN "LV" ELSE "LVT")
    ELSE IF c >= 4352 /\ c <= 4447 THEN "L"
    ELSE IF c >= 4448 /\ c <= 4519 THEN "V"
    ELSE IF c >= 4520 /\ c <= 4607 THEN "T"
    ELSE IF c >= 768 /\ c <= 879 THEN "Extend"
    ELSE "Any"

\* No boundary between a and b: rules GB6, GB7, GB8 (Hangul sequences) and
\* GB9 (x Extend) of extended grapheme clusters; GB999 breaks elsewhere.
NoBreak(a, b) ==
    LET ca == GraphemeCat(a)
        cb == GraphemeCat(b)
    IN  \/ cb = "Extend"
        \/ ca = "L" /\ cb \in {"L", "V", "LV", "LVT"}
        \/ ca \in {"LV", "V"} /\ cb \in {"V", "T"}
        \/ ca \in {"LVT", "T"} /\ cb = "T"

RECURSIVE Clusters(_, _, _)
Clusters(cs, k, cur) ==
    IF k > Len(cs) THEN <<cur>>
    ELSE IF NoBreak(cs[k - 1], cs[k])
         THEN Clusters(cs, k + 1, Append(cur, cs[k]))
         ELSE <<cur>> \o Clusters(cs, k + 1, <<cs[k]>>)

\* str::graphemes(true): the extended grapheme clusters, as substrings.
graphemes(str) ==
    LET cs == chars(str)
        cl == IF cs = <<>> THEN <<>> ELSE Clusters(cs, 2, <<cs[1]>>)
    IN  [k \in 1..Len(cl) |-> Str(cl[k])]

(***************************************************************************)
(* levenshtein_distance_chars                                              *)
(***************************************************************************)
\* vec![vec![0; n + 1]; m + 1], indexed from 0.
ZeroMatrix(m, nn) == [i \in 0..m |-> [j \in 0..nn |-> 0]]

InitColumn_skipped(d, i, m) == d

\* for i in 1..=m { d[i][0] = i; }
RECURSIVE InitColumn(_, _, _)
InitColumn(d, i, m) ==
    IF i > m THEN d ELSE InitColumn([d EXCEPT ![i][0] = i], i + 1, m)

InitRow_skipped(d, j, nn) == d

\* for j in 1..=n { d[0][j] = j; }
RECURSIVE InitRow(_, _, _)
InitRow(d, j, nn) ==
    IF j > nn THEN d ELSE InitRow([d EXCEPT ![0][j] = j], j + 1, nn)

substitution_cost_always(a, b, i, j) == 1

\* s[i - 1] == t[j - 1] on 0-based slices is a[i] = b[j] on 1-based sequences.
substitution_cost(a, b, i, j) == IF a[i] = b[j] THEN 0 ELSE 1

Cell(d, a, b, i, j) ==
    Min(Min(d[i - 1][j] + 1, d[i][j - 1] + 1),
        d[i - 1][j - 1] + substitution_cost(a, b, i, j))

\* for i in 1..=m { d[i][j] = ...; }
RECURSIVE FillColumn(_, _, _, _, _)
FillColumn(d, a, b, i, j) ==
    IF i > Len(a) THEN d
    ELSE FillColumn([d EXCEPT ![i][j] = Cell(d, a, b, i, j)], a, b, i + 1, j)

\* for j in 1..=n { for i in 1..=m { ... } }
RECURSIVE FillMatrix(_, _, _, _)
FillMatrix(d, a, b, j) ==
    IF j > Len(b) THEN d
    ELSE FillMatrix(FillColumn(d, a, b, 1, j), a, b, j + 1)

DistanceMatrix(a, b) ==
    LET m  == Len(a)
        nn == Len(b)
        d0 == ZeroMatrix(m, nn)
        d1 == InitColumn(d0, 1, m)
        d2 == InitRow(d1, 1, nn)
    IN  FillMatrix(d2, a, b, 1)

levenshtein_distance_chars(a, b) == DistanceMatrix(a, b)[Len(a)][Len(b)]

levenshtein_distance(x, y) == levenshtein_distance_chars(chars(x), chars(y))

(***************************************************************************)
(* normalize                                                               *)
(***************************************************************************)
SPACE == 32

\* The match of lines 56-63; its patterns are the Hangul Compatibility Jamo
\* U+3131.. that the source file spells.
consonant_class(c) ==
    IF c \in {12593, 12619, 12594} THEN 12593
    ELSE IF c \in {12599, 12600, 12620} THEN 12599
    ELSE IF c \in {12610, 12611, 12621} THEN 12610
    ELSE IF c \in {12613, 12614} THEN 12613
    ELSE IF c \in {12616, 12617, 12618} THEN 12616
    ELSE c

\* for char in part.nfd() { if char == ' ' { continue; } normalized.push(..) }
RECURSIVE PushDecomposed(_, _)
PushDecomposed(normalized, dec) ==
    IF dec = <<>> THEN normalized
    ELSE IF Head(dec) = SPACE THEN PushDecomposed(normalized, Tail(dec))
    ELSE PushDecomposed(Append(normalized, consonant_class(Head(dec))), Tail(dec))

\* for part in unicode_char.chars() { ... }
RECURSIVE PushParts(_, _)
PushParts(normalized, parts) ==
    IF parts = <<>> THEN normalized
    ELSE PushParts(PushDecomposed(normalized, nfd(Head(parts))), Tail(parts))

\* for unicode_char in s.graphemes(true) { ... }
RECURSIVE PushGraphemes(_, _)
PushGraphemes(normalized, gs) ==
    IF gs = <<>> THEN normalized
    ELSE PushGraphemes(PushParts(normalized, chars(Head(gs))), Tail(gs))

normalize(str) == PushGraphemes(<<>>, graphemes(str))

(***************************************************************************)
(* k_edit_distance                                                         *)
(***************************************************************************)
\* syllables.get(i).unwrap_or(&""), i counted from 0.
SyllableAt(syllables, i) == IF i < Len(syllables) THEN syllables[i + 1] ELSE <<>>

syllable_dist(s_syllables, t_syllables, i) ==
    levenshtein_distance_chars(normalize(SyllableAt(s_syllables, i)),
                               normalize(SyllableAt(t_syllables, i)))

LoopEnd_shorter(s_syllables, t_syllables) ==
    Min(Len(s_syllables), Len(t_syllables))

\* 0..(s_syllables.len().max(t_syllables.len()))
LoopEnd(s_syllables, t_syllables) == Max(Len(s_syllables), Len(t_syllables))

RECURSIVE SumSyllables(_, _, _, _)
SumSyllables(s_syllables, t_syllables, i, acc) ==
    IF i >= LoopEnd(s_syllables, t_syllables) THEN acc
    ELSE SumSyllables(s_syllables, t_syllables, i + 1,
                      acc + syllable_dist(s_syllables, t_syllables, i))

Denominator_first_only(s_syllables, t_syllables) == 3 * Len(s_syllables)

\* (3 * s_syllables.len()).max(3 * t_syllables.len())
Denominator(s_syllables, t_syllables) ==
    Max(3 * Len(s_syllables), 3 * Len(t_syllables))

\* The literal 0. returned by the short-circuit.
F32Zero == <<0, 1>>

\* a as f32 / b as f32; <<0, 0>> stands for NaN and <<1, 0>> for infinity.
F32Div(a, b) ==
    IF b = 0 THEN (IF a = 0 THEN <<0, 0>> ELSE <<1, 0>>)
    ELSE LET g == Gcd(a, b) IN <<a \div g, b \div g>>

ShortCircuit_omitted(x, y) == FALSE

\* s.len() == 0 && t.len() == 0 (byte lengths)
ShortCircuit(x, y) == Len(x) = 0 /\ Len(y) = 0

k_edit_distance(x, y) ==
    IF ShortCircuit(x, y) THEN F32Zero
    ELSE F32Div(SumSyllables(graphemes(x), graphemes(y), 0, 0),
                Denominator(graphemes(x), graphemes(y)))

(***************************************************************************)
(* Inputs.                                                                 *)
(***************************************************************************)
\* space, U+0301 COMBINING ACUTE ACCENT and the syllables GA, KKA (leading
\* consonant of the same class as GA) and GAKK (with a trailing consonant).
KAlphabet == {32, 769, 44032, 44620, 44034}

\* 'a', 'b' and the three-byte compatibility jamo KIYEOK.
LevAlphabet == {97, 98, 12593}

RECURSIVE SeqsUpTo(_, _)
SeqsUpTo(A, k) ==
    IF k = 0 THEN {<<>>}
    ELSE LET prev == SeqsUpTo(A, k - 1)
         IN  prev \cup {Append(w, c) : w \in prev, c \in A}

W_gugeo == <<44397, 50612>>
W_sugeo == <<49689, 50612>>
W_namugaji == <<45208, 47924, 44032, 51648>>
W_namusgaji == <<45208, 47943, 44032, 51648>>
W_sinmun == <<49888, 47928>>
W_sigmul == <<49885, 47932>>
W_geomeunsaek == <<44160, 51008, 49353>>
W_bunhongsaek == <<48516, 54861, 49353>>
W_sinhodeung == <<49888, 54840, 46321>>
W_taeksi == <<53469, 49884>>
W_jingongcheongsogi == <<51652, 44277, 52397, 49548, 44592>>
W_sot == <<49573>>
W_haneul == <<54616, 45720>>
W_hello == <<104, 101, 108, 108, 111>>
W_kitten == <<107, 105, 116, 116, 101, 110>>
W_sitten == <<115, 105, 116, 116, 101, 110>>
W_sittin == <<115, 105, 116, 116, 105, 110>>
W_sitting == <<115, 105, 116, 116, 105, 110, 103>>
W_book == <<98, 111, 111, 107>>
W_back == <<98, 97, 99, 107>>
W_apple == <<97, 112, 112, 108, 101>>
W_gak == <<44033>>
W_a == <<97>>
W_kiyeok == <<12593>>
W_ssangkiyeok == <<12594>>

\* The words of test_kang_seung_shik_distance and of the doc example, the
\* syllable GAK, a Latin letter and two compatibility jamo of one class.
KWords ==
    {W_gugeo, W_sugeo, W_namugaji, W_namusgaji, W_sinmun, W_sigmul,
     W_geomeunsaek, W_bunhongsaek, W_sinhodeung, W_taeksi,
     W_jingongcheongsogi, W_sot, W_haneul, W_gak, W_a, W_kiyeok,
     W_ssangkiyeok}

\* The words of test_levenshtein_distance.
LevWords ==
    {W_hello, W_kitten, W_sitten, W_sittin, W_sitting, W_book, W_back, W_apple}

KInputs == {Str(w) : w \in SeqsUpTo(KAlphabet, MaxLen) \cup KWords}

LevInputs == {Str(w) : w \in SeqsUpTo(LevAlphabet, LevMaxLen) \cup LevWords}

(***************************************************************************)
(* The calls.                                                              *)
(***************************************************************************)
Init ==
    /\ s \in KInputs
    /\ t \in KInputs
    /\ pc = "ready"
    /\ dist = 0
    /\ edit_distance = 0
    /\ max = 0
    /\ n = F32Zero

InitLev ==
    /\ s \in LevInputs
    /\ t \in LevInputs
    /\ pc = "ready"
    /\ dist = 0
    /\ edit_distance = 0
    /\ max = 0
    /\ n = F32Zero

\* levenshtein_distance(s, t)
CallLevenshtein ==
    /\ pc = "ready"
    /\ dist' = levenshtein_distance(s, t)
    /\ pc' = "lev_returned"
    /\ UNCHANGED <<s, t, edit_distance, max, n>>

\* k_edit_distance(s, t), returning at line 86.
CallKEditEmpty ==
    /\ pc = "ready"
    /\ ShortCircuit(s, t)
    /\ n' = k_edit_distance(s, t)
    /\ pc' = "k_short_circuit"
    /\ UNCHANGED <<s, t, dist, edit_distance, max>>

\* k_edit_distance(s, t), returning at line 114; the locals edit_distance and
\* max are kept as they stand at the division.
CallKEdit ==
    /\ pc = "ready"
    /\ ~ShortCircuit(s, t)
    /\ edit_distance' = SumSyllables(graphemes(s), graphemes(t), 0, 0)
    /\ max' = Denominator(graphemes(s), graphemes(t))
    /\ n' = k_edit_distance(s, t)
    /\ pc' = "k_returned"
    /\ UNCHANGED <<s, t, dist>>

Next == CallKEditEmpty \/ CallKEdit \/ CallLevenshtein

NextLev == CallLevenshtein

Spec == Init /\ [][Next]_vars

SpecLev == InitLev /\ [][NextLev]_vars

(***************************************************************************)
(* Reference notions the properties are stated with.                       *)
(***************************************************************************)
\* The k-th smallest element of a finite set of numbers is the one with
\* k - 1 elements below it.
Rank(A, x) == Cardinality({y \in A : y < x})

\* An alignment of a with b pairs the positions A of a, in order, with the
\* positions B of b: paired positions are kept or substituted, unpaired
\* positions of a are deleted and unpaired positions of b are inserted.
AlignmentCost(a, b, A, B) ==
    (Len(a) - Cardinality(A)) + (Len(b) - Cardinality(B))
    + Cardinality({x \in A :
          a[x] # b[CHOOSE y \in B : Rank(B, y) = Rank(A, x)]})

\* Minimum number of unit-cost insertions, deletions and substitutions that
\* turn a into b: the cheapest alignment.
ReferenceDistance(a, b) ==
    LET costs == {AlignmentCost(a, b, A, B) :
                     <<A, B>> \in {p \in (SUBSET (1..Len(a))) \X (SUBSET (1..Len(b))) :
                                      Cardinality(p[1]) = Cardinality(p[2])}}
    IN  CHOOSE c \in costs : \A e \in costs : c <= e

RECURSIVE SumTo(_, _)
SumTo(f, k) == IF k = 0 THEN 0 ELSE f[k] + SumTo(f, k - 1)

KReturned == pc = "k_returned"

KDone == pc \in {"k_returned", "k_short_circuit"}

LevReturned == pc = "lev_returned"

S_syllables == graphemes(s)

T_syllables == graphemes(t)

\* Leading consonants (index in the syllable arithmetic) of one class:
\* KIYEOK/SSANGKIYEOK/KHIEUKH, TIKEUT/SSANGTIKEUT/THIEUTH,
\* PIEUP/SSANGPIEUP/PHIEUPH, SIOS/SSANGSIOS, CIEUC/SSANGCIEUC/CHIEUCH.
LeadingClasses == {{0, 1, 15}, {3, 4, 16}, {7, 8, 17}, {9, 10}, {12, 13, 14}}

\* Trailing consonants of one class (no trailing SSANGTIKEUT, SSANGPIEUP or
\* SSANGCIEUC exists).
TrailingClasses == {{1, 2, 24}, {7, 25}, {17, 26}, {19, 20}, {22, 23}}

\* y is x with its leading or its trailing consonant replaced by another
\* consonant of the same class.
SameClassVariant(x, y) ==
    /\ IsHangulSyllable(x) /\ IsHangulSyllable(y)
    /\ x # y
    /\ VIndex(x) = VIndex(y)
    /\ \/ /\ TIndex(x) = TIndex(y)
          /\ \E c \in LeadingClasses : LIndex(x) \in c /\ LIndex(y) \in c
       \/ /\ LIndex(x) = LIndex(y)
          /\ \E c \in TrailingClasses : TIndex(x) \in c /\ TIndex(y) \in c

(***************************************************************************)
(* Properties.                                                             *)
(***************************************************************************)
\* C1: the score is in [0.0, 1.0]: the summed per-syllable distance never
\* exceeds the denominator max(3*|S|, 3*|T|), whatever the graphemes.
C1_ScoreInUnitInterval ==
    /\ KReturned => edit_distance <= max /\ n[1] <= n[2]
    /\ pc = "k_short_circuit" => n[1] <= n[2]

\* C2: a syllable and its variant with a leading or trailing consonant of
\* the same class normalize alike and score 0.0.
C2_ConsonantClassCollapse ==
    (KReturned /\ Len(chars(s)) = 1 /\ Len(chars(t)) = 1
        /\ SameClassVariant(chars(s)[1], chars(t)[1]))
    => (normalize(s) = normalize(t) /\ n = F32Zero)

\* C3: levenshtein_distance(s, t) is the minimum number of unit-cost
\* insertions, deletions and substitutions turning the code points of s into
\* those of t; kitten/sitten = 1, book/back = 2, apple/back = 5.
C3_LevenshteinIsMinimumEdits ==
    LevReturned =>
        /\ dist = ReferenceDistance(chars(s), chars(t))
        /\ (s = Str(W_kitten) /\ t = Str(W_sitten)) => dist = 1
        /\ (s = Str(W_book) /\ t = Str(W_back)) => dist = 2
        /\ (s = Str(W_apple) /\ t = Str(W_back)) => dist = 5

C3_Witness ==
    LevReturned /\ s = Str(W_apple) /\ t = Str(W_back) /\ dist = 5

\* C4: k_edit_distance(s, s) = 0.0 for every s, strings of spaces and of
\* non-Korean characters included.
C4_SelfDistanceZero == (KDone /\ s = t) => n = F32Zero

C4_Witness == KReturned /\ s = t /\ s = Str(<<SPACE, SPACE>>) /\ n = F32Zero

\* C5: k_edit_distance(s, t) = k_edit_distance(t, s), also when s and t have
\* different numbers of graphemes.
C5_KEditSymmetric == KDone => n = k_edit_distance(t, s)

C5_Witness ==
    KReturned /\ Len(S_syllables) < Len(T_syllables) /\ S_syllables # <<>>
        /\ n # F32Zero

\* C6: abs(length(s) - length(t)) <= levenshtein_distance(s, t)
\* <= max(length(s), length(t)), lengths in Unicode scalar values; the
\* distance to the empty string is the other string's length.
C6_LevenshteinBounds ==
    LevReturned =>
        /\ Abs(Len(chars(s)) - Len(chars(t))) <= dist
        /\ dist <= Max(Len(chars(s)), Len(chars(t)))
        /\ t = <<>> => dist = Len(chars(s))
        /\ s = <<>> => dist = Len(chars(t))

C6_Witness == LevReturned /\ s = Str(W_hello) /\ t = <<>> /\ dist = 5

\* C7: levenshtein_distance(s, t) = levenshtein_distance(t, s).
C7_LevenshteinSymmetric == LevReturned => dist = levenshtein_distance(t, s)

C7_Witness ==
    LevReturned /\ Len(chars(s)) < Len(chars(t)) /\ s # <<>>
        /\ dist > Len(chars(t)) - Len(chars(s))

\* C8: k_edit_distance is total: ("", "") returns exactly 0.0 through the
\* short-circuit, every other pair reaches the division with a denominator
\* of at least 3, and a defined score is returned.
C8_TotalNoDivisionByZero ==
    /\ pc = "ready" => k_edit_distance(s, t)[2] # 0
    /\ pc = "k_short_circuit" => (s = <<>> /\ t = <<>> /\ n = F32Zero)
    /\ KReturned =>
          /\ s # <<>> \/ t # <<>>
          /\ max >= 3
          /\ n[2] # 0
          /\ n = F32Div(edit_distance, max)

C8_Witness == KReturned /\ s # <<>> /\ t = <<>> /\ max = 3 /\ n[2] # 0

\* C9: the score is the sum over the positions i < max(|S|, |T|) of the edit
\* distance between the normalized jamo sequences of S[i] and T[i], divided
\* by max(3*|S|, 3*|T|); the reference pairs score 1/6, 1/12, 2/6, 6/9, 8/9,
\* 13/15 and 6/6.
C9_ScoreIsSumOverDenominator ==
    KReturned =>
        /\ LET L == Max(Len(S_syllables), Len(T_syllables))
               d == [i \in 1..L |->
                       ReferenceDistance(normalize(SyllableAt(S_syllables, i - 1)),
                                         normalize(SyllableAt(T_syllables, i - 1)))]
           IN  /\ edit_distance = SumTo(d, L)
               /\ n[1] * Max(3 * Len(S_syllables), 3 * Len(T_syllables))
                     = SumTo(d, L) * n[2]
        /\ (s = Str(W_gugeo) /\ t = Str(W_sugeo)) => n = <<1, 6>>
        /\ (s = Str(W_namugaji) /\ t = Str(W_namusgaji)) => n = <<1, 12>>
        /\ (s = Str(W_sinmun) /\ t = Str(W_sigmul)) => n = <<1, 3>>
        /\ (s = Str(W_geomeunsaek) /\ t = Str(W_bunhongsaek)) => n = <<2, 3>>
        /\ (s = Str(W_sinhodeung) /\ t = Str(W_taeksi)) => n = <<8, 9>>
        /\ (s = Str(W_jingongcheongsogi) /\ t = Str(W_sot)) => n = <<13, 15>>
        /\ (s = Str(W_haneul) /\ t = Str(W_taeksi)) => n = <<1, 1>>

C9_Witness ==
    KReturned /\ s = Str(W_jingongcheongsogi) /\ t = Str(W_sot)
        /\ edit_distance = 13 /\ max = 15

\* C10: positions past the end of the shorter grapheme sequence are compared
\* with the empty string: each extra syllable of the longer side adds the
\* length of its own normalized jamo sequence, the common positions add
\* their pairwise distances.
C10_ExtraSyllablesAddOwnLength ==
    KReturned =>
        LET lo     == Min(Len(S_syllables), Len(T_syllables))
            hi     == Max(Len(S_syllables), Len(T_syllables))
            longer == IF Len(S_syllables) >= Len(T_syllables)
                      THEN S_syllables ELSE T_syllables
            common == [i \in 1..lo |->
                         levenshtein_distance_chars(normalize(S_syllables[i]),
                                                    normalize(T_syllables[i]))]
            extra  == [i \in 1..hi |->
                         IF i <= lo THEN 0 ELSE Len(normalize(longer[i]))]
        IN  edit_distance = SumTo(common, lo) + SumTo(extra, hi)

C10_Witness ==
    KReturned /\ s = Str(W_sinhodeung) /\ t = Str(W_taeksi) /\ edit_distance = 8

====
